---------------------------- MODULE Spec2Model ----------------------------
(***************************************************************************)
(* A model of shca_stream_gen.py: the SHCA report generator.               *)
(*                                                                         *)
(* Strings are TLA+ strings; a character of s is SubSeq(s, i, i).  An      *)
(* Optional[T] value is a sequence: <<>> is None and <<v>> is the value v. *)
(* A dict is a function whose DOMAIN is the set of keys present.           *)
(*                                                                         *)
(* The random module is a deterministic generator: a state (rng), set by   *)
(* random.seed, and one step of it per draw.  datetime.utcnow() reads the  *)
(* variable now, a count of clock ticks that the environment advances.     *)
(* Calendar arithmetic is reduced to day ordinals: a date is the number of *)
(* its day, and strftime prints that number in the width of the format.    *)
(***************************************************************************)
EXTENDS Integers, Sequences, FiniteSets, TLC

\* ------------------------------------------------------------------
\* Bounds of the model
\* ------------------------------------------------------------------

\* largest --business / --service count tried
MaxContacts == 1
\* largest --schedule2 count tried
MaxSchedule2 == 3
\* largest --schedule3 count tried
MaxSchedule3 == 1
\* seeds tried are 0..MaxSeed
MaxSeed == 0
\* the clock starts at tick 0 and is followed up to tick MaxNow
MaxNow == 1
\* clock ticks in one day
TicksPerDay == 2
\* whole_dollars draws at most this many digits (the code asks for 11..13)
MaxDigits == 3
\* largest reportingEntityIdentifier drawn (the code draws up to 9999999999)
MaxEntityId == 99
\* most pieces (see PIECES) in a string handed to esc, text_tag and start in SpecEsc
MaxLen == 3

\* ------------------------------------------------------------------
\* Optional values, strings, integers
\* ------------------------------------------------------------------

None == <<>>

Some(v) == <<v>>

Ch(s, i) == SubSeq(s, i, i)

Min(a, b) == IF a < b THEN a ELSE b

DIGITS == "0123456789"

ASCII_LOWERCASE == "abcdefghijklmnopqrstuvwxyz"

ASCII_LETTERS == "abcdefghijklmnopqrstuvwxyzABCDEFGHIJKLMNOPQRSTUVWXYZ"

IsDigit(c) == \E i \in 1..10 : Ch(DIGITS, i) = c

DigitVal(c) == CHOOSE d \in 0..9 : Ch(DIGITS, d + 1) = c

IsSpace(c) == c \in {" ", "\t", "\n", "\r", "\f"}

\* str(n) for an int n
RECURSIVE StrNat(_)
StrNat(n) == IF n < 10 THEN Ch(DIGITS, n + 1)
             ELSE StrNat(n \div 10) \o Ch(DIGITS, (n % 10) + 1)

str(n) == IF n < 0 THEN "-" \o StrNat(0 - n) ELSE StrNat(n)

\* strftime of a number in a fixed-width numeric format: zero padded, and
\* cut to the width (as %y cuts the year)
RECURSIVE ZeroPad(_, _)
ZeroPad(n, width) ==
    IF width = 0 THEN ""
    ELSE ZeroPad(n \div 10, width - 1) \o Ch(DIGITS, (n % 10) + 1)

\* str.strip() of whitespace, as int() does before it parses
RECURSIVE LStrip(_)
LStrip(s) == IF Len(s) > 0 /\ IsSpace(Ch(s, 1))
             THEN LStrip(SubSeq(s, 2, Len(s))) ELSE s

RECURSIVE RStrip(_)
RStrip(s) == IF Len(s) > 0 /\ IsSpace(Ch(s, Len(s)))
             THEN RStrip(SubSeq(s, 1, Len(s) - 1)) ELSE s

\* the value of a digit string with single underscores allowed between digits
RECURSIVE DigitsValue(_, _)
DigitsValue(s, acc) ==
    IF Len(s) = 0 THEN acc
    ELSE IF Ch(s, 1) = "_" THEN DigitsValue(SubSeq(s, 2, Len(s)), acc)
    ELSE DigitsValue(SubSeq(s, 2, Len(s)), acc * 10 + DigitVal(Ch(s, 1)))

IsIntBody(s) ==
    /\ Len(s) > 0
    /\ IsDigit(Ch(s, 1))
    /\ IsDigit(Ch(s, Len(s)))
    /\ \A i \in 1..Len(s) : IsDigit(Ch(s, i)) \/ Ch(s, i) = "_"
    /\ \A i \in 1..(Len(s) - 1) : ~(Ch(s, i) = "_" /\ Ch(s, i + 1) = "_")

\* int(val) for a str val: [ok |-> FALSE] stands for ValueError
HasSign(t) == Len(t) > 0 /\ Ch(t, 1) \in {"+", "-"}

\* the stripped text t of an int() argument, parsed
int_stripped(t) ==
    LET parse(body, negative) ==
            IF IsIntBody(body)
            THEN [ok |-> TRUE,
                  n |-> IF negative THEN 0 - DigitsValue(body, 0)
                        ELSE DigitsValue(body, 0)]
            ELSE [ok |-> FALSE, n |-> 0]
    IN  IF HasSign(t) THEN parse(SubSeq(t, 2, Len(t)), Ch(t, 1) = "-")
        ELSE parse(t, FALSE)

int(val) == int_stripped(RStrip(LStrip(val)))

\* ------------------------------------------------------------------
\* The random module: a seeded deterministic generator
\* ------------------------------------------------------------------

RngModulus == 65536

RngMultiplier == 25173

RngIncrement == 13849

\* random.seed(seed)
RngSeed(seed) == (seed * 7919 + 4099) % RngModulus

RngStep(g) == (g * RngMultiplier + RngIncrement) % RngModulus

\* one draw below n: the value and the generator's next state
randbelow(g, n) ==
    LET drawn(g1) == [v |-> (g1 \div 16) % n, g |-> g1] IN drawn(RngStep(g))

\* random.randint(a, b)
randint(g, a, b) ==
    LET shifted(r) == [v |-> a + r.v, g |-> r.g] IN shifted(randbelow(g, b - a + 1))

\* random.choice(seq) for a sequence (of strings) or a string (of characters)
choice(g, items) ==
    LET picked(r) == [v |-> items[r.v + 1], g |-> r.g]
    IN  picked(randbelow(g, Len(items)))

choice_char(g, s) ==
    LET picked(r) == [v |-> Ch(s, r.v + 1), g |-> r.g]
    IN  picked(randbelow(g, Len(s)))

\* "".join(random.choice(alphabet) for _ in range(n))
RECURSIVE rand_chars(_, _, _)
rand_chars(g, alphabet, n) ==
    IF n <= 0 THEN [v |-> "", g |-> g]
    ELSE LET joined(c, rest) == [v |-> c.v \o rest.v, g |-> rest.g]
             after(c) == joined(c, rand_chars(c.g, alphabet, n - 1))
         IN  after(choice_char(g, alphabet))

\* ------------------------------------------------------------------
\* Generators
\* ------------------------------------------------------------------

US_STATES == <<"NY", "CA", "TX", "IL", "WA">>

CURRENCIES == <<"USD", "EUR", "JPY", "GBP", "CAD">>

COMPANIES == <<"Big Bank", "Acme Financial", "Northstar Credit">>

NAMES == <<"Alex Kim", "Jordan Lee", "Taylor Chen">>

TITLES == <<"Manager", "Director", "VP">>

CITIES == <<"New York", "Chicago", "San Francisco", "Seattle">>

STREETS == <<"Main St", "Market St", "Broadway", "1st Ave", "2nd Ave">>

EMAIL_DOMAINS == <<"example.com", "bank.com", "corp.net">>

SHCDN486_ALLOWED == <<"13307", "10251", "16209", "16527">>

digits(g, n) == rand_chars(g, DIGITS, n)

rand_alnum(g, n) == rand_chars(g, ASCII_LETTERS \o DIGITS, n)

\* the day of clock tick t; the first day leaves room for the oldest date
FirstDay == 3 * 365

Today(t) == FirstDay + (t \div TicksPerDay)

TimeOfDay(t) == t % TicksPerDay

\* r.v then r2.v, drawn in that order
Joined(r, r2) == [v |-> r.v \o r2.v, g |-> r2.g]

yyyymmdd(g, t) ==
    LET dt(days) == [v |-> ZeroPad(Today(t) - days.v, 8), g |-> days.g]
    IN  dt(randint(g, 0, 365))

mmddyy(g, t) ==
    LET dt(days) == [v |-> ZeroPad(Today(t) - days.v, 6), g |-> days.g]
    IN  dt(randint(g, 0, 365 * 3))

phone10(g) ==
    LET after(first) == Joined(first, digits(first.g, 9))
    IN  after(choice_char(g, "123456789"))

zip5(g) == digits(g, 5)

whole_dollars(g, max_digits) ==
    LET with_first(length, first) ==
            IF length > 1 THEN Joined(first, digits(first.g, length - 1)) ELSE first
        with_length(length) ==
            with_first(length.v, choice_char(length.g, "123456789"))
    IN  with_length(randint(g, 1, max_digits))

email80(g) ==
    LET cut(full, g2) == [v |-> SubSeq(full, 1, Min(80, Len(full))), g |-> g2]
        with_dom(user, dom) == cut(user.v \o "@" \o dom.v, dom.g)
        with_user(user) == with_dom(user, choice(user.g, EMAIL_DOMAINS))
    IN  with_user(rand_chars(g, ASCII_LOWERCASE, 10))

\* the digit counts the code passes to whole_dollars, within the model's bound
Capped(max_digits) == Min(max_digits, MaxDigits)

SEQ_DRIVERS == {"SHCDN186", "SHCCN186", "SHCAR069", "SHCAR070"}

\* random.choice([1, 2]), printed
\* str(r.v) for a drawn int r
Printed(r) == [v |-> str(r.v), g |-> r.g]

one_or_two(g) == Printed(choice(g, <<1, 2>>))

randint_str(g, a, b) == Printed(randint(g, a, b))

\* an override test by truthiness, which takes "" for no override
override_truthy(override) == override /= None /\ override[1] /= ""

\* if override is not None
has_override(override) == override /= None

\* a sequence key that ignores the position
seq_driver_first(seq_value) == "1"

\* str(seq_value if seq_value is not None else 1)
seq_driver_value(seq_value) == str(IF seq_value /= None THEN seq_value[1] ELSE 1)

\* make_value(rs_id, seq_value, override), drawing from generator state g at
\* clock tick t: the value and the generator's next state
make_value(rs_id, seq_value, override, g, t) ==
    IF has_override(override) THEN [v |-> override[1], g |-> g]
    ELSE IF rs_id \in SEQ_DRIVERS
    THEN [v |-> seq_driver_value(seq_value), g |-> g]
    ELSE CASE rs_id = "SHCAC492" -> email80(g)
      [] rs_id \in {"SHCCN478", "SHCCN479", "SHCDN461", "SHCDN467"} -> one_or_two(g)
      [] rs_id \in {"SHCDN463", "SHCDN471"} -> randint_str(g, 1, 7)
      [] rs_id = "SHCDN468" -> randint_str(g, 1, 12)
      [] rs_id = "SHCDN486" -> choice(g, SHCDN486_ALLOWED)
      [] rs_id = "SHCDN475" -> [v |-> "", g |-> g]
      [] rs_id = "SHCA9017" -> choice(g, COMPANIES)
      [] rs_id = "SHCA9028" ->
            LET address(n, st) == [v |-> str(n.v) \o " " \o st.v, g |-> st.g]
                numbered(n) == address(n, choice(n.g, STREETS))
            IN  numbered(randint(g, 1, 99999))
      [] rs_id = "SHCA9130" -> choice(g, CITIES)
      [] rs_id = "SHCA9200" -> choice(g, US_STATES)
      [] rs_id = "SHCA9220" -> zip5(g)
      [] rs_id = "SHCAN261" -> randint_str(g, 1, 4)
      [] rs_id = "SHCAN262" -> randint_str(g, 1, 9)
      [] rs_id = "SHCAN444" -> choice(g, NAMES)
      [] rs_id = "SHCAN445" -> choice(g, TITLES)
      [] rs_id = "SHCAN446" -> phone10(g)
      [] rs_id = "SHCAN447" -> email80(g)
      [] rs_id = "SHCAC495" -> choice(g, NAMES)
      [] rs_id = "SHCAC496" -> choice(g, TITLES)
      [] rs_id = "SHCA8902" -> phone10(g)
      [] rs_id = "SHCA4086" -> email80(g)
      [] rs_id = "SHCAN263" -> choice(g, COMPANIES)
      [] rs_id = "SHCDN470" -> choice(g, CURRENCIES)
      [] rs_id \in {"SHCDN490", "SHCDN472"} -> whole_dollars(g, Capped(12))
      [] rs_id = "SHCDN473" -> whole_dollars(g, Capped(11))
      [] rs_id = "SHCDN474" -> whole_dollars(g, Capped(13))
      [] rs_id \in {"SHCDN477", "SHCD9914"} -> mmddyy(g, t)
      [] rs_id \in {"SHCCN456", "SHCCN457", "SHCCN458", "SHCCN459"} ->
            whole_dollars(g, Capped(13))
      [] rs_id = "SHCAN449" -> [v |-> "Valuation description", g |-> g]
      [] OTHER -> rand_alnum(g, 10)

\* ------------------------------------------------------------------
\* XML helpers
\* ------------------------------------------------------------------

\* s.replace(c, r) for a one-character c
RECURSIVE replace(_, _, _)
replace(s, c, r) ==
    IF Len(s) = 0 THEN ""
    ELSE (IF Ch(s, 1) = c THEN r ELSE Ch(s, 1)) \o replace(SubSeq(s, 2, Len(s)), c, r)

\* an escaper that replaces the ampersand last
esc_amp_last(s) ==
    replace(replace(replace(replace(replace(s,
        "<", "&lt;"), ">", "&gt;"), "\"", "&quot;"), "'", "&apos;"), "&", "&amp;")

esc(s) ==
    replace(replace(replace(replace(replace(s,
        "&", "&amp;"), "<", "&lt;"), ">", "&gt;"), "\"", "&quot;"), "'", "&apos;")

\* " ".join(f'{k}="{esc(str(v))}"' for k, v in attrs.items()); attrs is the
\* sequence of <<k, v>> pairs in the order the keywords were given
RECURSIVE attr_text(_)
attr_text(attrs) ==
    IF Len(attrs) = 0 THEN ""
    ELSE attrs[1][1] \o "=\"" \o esc(attrs[1][2]) \o "\""
         \o (IF Len(attrs) > 1 THEN " " \o attr_text(Tail(attrs)) ELSE "")

start_bytes(tag, attrs) ==
    IF Len(attrs) > 0 THEN "<" \o tag \o " " \o attr_text(attrs) \o ">"
    ELSE "<" \o tag \o ">"

end_bytes(tag) == "</" \o tag \o ">"

\* The file fh is the sequence of the writer's calls so far.  Each call
\* writes its bytes straight to the file: bytes_of gives the bytes of a call,
\* file_bytes the contents of the file.
w(fh, s) == Append(fh, [fn |-> "w", tag |-> "", attrs |-> <<>>, value |-> s])

start(fh, tag, attrs) ==
    Append(fh, [fn |-> "start", tag |-> tag, attrs |-> attrs, value |-> ""])

end(fh, tag) == Append(fh, [fn |-> "end", tag |-> tag, attrs |-> <<>>, value |-> ""])

\* start(fh, tag, **attrs); w(fh, esc(value)); end(fh, tag)
text_tag(fh, tag, value, attrs) ==
    Append(fh, [fn |-> "text_tag", tag |-> tag, attrs |-> attrs, value |-> value])

bytes_of(c) ==
    CASE c.fn = "w" -> c.value
      [] c.fn = "start" -> start_bytes(c.tag, c.attrs)
      [] c.fn = "end" -> end_bytes(c.tag)
      [] c.fn = "text_tag" ->
            start_bytes(c.tag, c.attrs) \o esc(c.value) \o end_bytes(c.tag)

RECURSIVE bytes_between(_, _, _)
\* the bytes written by calls lo..hi of fh, one after the other
bytes_between(fh, lo, hi) ==
    IF lo > hi THEN ""
    ELSE IF lo = hi THEN bytes_of(fh[lo])
    ELSE bytes_between(fh, lo, (lo + hi) \div 2)
         \o bytes_between(fh, (lo + hi) \div 2 + 1, hi)

file_bytes(fh) == bytes_between(fh, 1, Len(fh))

\* key_attr is Optional[str]; "if key_attr" is false for None and for ""
write_report_item(fh, rs_id, value, key_attr) ==
    end(text_tag(text_tag(
            IF key_attr /= None /\ key_attr[1] /= ""
            THEN start(fh, "reportItem", << <<"key", key_attr[1]>> >>)
            ELSE start(fh, "reportItem", <<>>),
            "rs_id", rs_id, << <<"type", "mdrm">> >>),
            "itemValue", value, <<>>),
        "reportItem")

\* ------------------------------------------------------------------
\* Friendly itemGroup@ref mapping, key rs_ids, group rs_id lists
\* ------------------------------------------------------------------

SCHEDULE2_REF == "Schedule2"

SCHEDULE3_REF == "Schedule3"

BUSINESS_REF == "BusContact"

SERVICE_REF == "ServiceProvider"

VALTECH_REF == "ValTechnique"

SCHEDULE2_SEQ_RSID == "SHCDN186"

SCHEDULE3_SEQ_RSID == "SHCCN186"

BUSINESS_SEQ_RSID == "SHCAR069"

SERVICE_SEQ_RSID == "SHCAR070"

VALTECH_KEY_RSID == "SHCAN448"

SEQ_KEY_VALUE == "yes"

SCHEDULE2_RSIDS ==
    <<"SHCDN186", "SHCAN448",
      "SHCDN460", "SHCDN461", "SHCDN462", "SHCDN463", "SHCDN464",
      "SHCDN465", "SHCDN466", "SHCDN467", "SHCDN468", "SHCDN486",
      "SHCDN470", "SHCDN471", "SHCDN487", "SHCDN490", "SHCDN472",
      "SHCDN473", "SHCDN474", "SHCDN475", "SHCDN477", "SHCD9914">>

SCHEDULE3_RSIDS ==
    <<"SHCCN186",
      "SHCCN478", "SHCCN456", "SHCCN457", "SHCCN458", "SHCCN459",
      "SHCCN479", "SHCCN480", "SHCCN481", "SHCCN482",
      "SHCCN483", "SHCCN484", "SHCCN485">>

BUSINESS_RSIDS == <<"SHCAR069", "SHCAC495", "SHCAC496", "SHCA8902", "SHCA4086">>

SERVICE_RSIDS == <<"SHCAR070", "SHCAN263">>

VALTECH_RSIDS == <<"SHCAN448", "SHCAN449">>

\* ------------------------------------------------------------------
\* Group writer and accumulation
\* ------------------------------------------------------------------

\* d.get(k, default) and d[k] = v for a dict d
Get(d, k, default) == IF k \in DOMAIN d THEN d[k] ELSE default

Put(d, k, v) == [x \in (DOMAIN d) \cup {k} |-> IF x = k THEN v ELSE d[x]]

EmptyDict == [k \in {} |-> 0]

S2_SUM_KEY == "S2_SUM_SHCDN490"

S3_AMOUNT_RSIDS == {"SHCCN456", "SHCCN457", "SHCCN458", "SHCCN459"}

\* sums[key] = sums.get(key, 0) + int(val), skipped on ValueError
\* an accumulation that stores the last value instead of adding it
accumulate_overwriting(totals, key, val) ==
    LET added(r) == IF r.ok THEN Put(totals, key, r.n) ELSE totals
    IN  added(int(val))

\* an accumulation that zeroes the total on a value that is no integer
accumulate_resetting(totals, key, val) ==
    LET added(r) == IF r.ok THEN Put(totals, key, Get(totals, key, 0) + r.n)
                    ELSE Put(totals, key, 0)
    IN  added(int(val))

accumulate(totals, key, val) ==
    LET added(r) == IF r.ok THEN Put(totals, key, Get(totals, key, 0) + r.n)
                    ELSE totals
    IN  added(int(val))

\* the second accumulation step of the loop body
accumulate_s3(totals, rid, val) ==
    IF rid \in S3_AMOUNT_RSIDS THEN accumulate(totals, rid, val) ELSE totals

\* the two accumulation steps of the loop body, for member rid with value val
accumulate_member(totals, rid, val) ==
    accumulate_s3(IF rid = "SHCDN490" THEN accumulate(totals, S2_SUM_KEY, val)
                  ELSE totals,
                  rid, val)

\* a writer that marks no member as the key
is_key_never(rid, key_rsid) == FALSE

\* whether member rid gets the key attribute
is_key_member(rid, key_rsid) == rid = key_rsid

\* the body of write_group_instance's loop for member rid, whose value was
\* resolved to val: st = [i, out, sums, g] after the item is written and added
group_member(st, rid, key_rsid, val) ==
    [i |-> st.i + 1,
     out |-> IF is_key_member(rid, key_rsid)
             THEN write_report_item(st.out, rid, val.v, Some(SEQ_KEY_VALUE))
             ELSE write_report_item(st.out, rid, val.v, None),
     sums |-> accumulate_member(st.sums, rid, val.v),
     g |-> val.g]

\* overrides.get(rid)
override_of(overrides, rid) ==
    IF rid \in DOMAIN overrides THEN Some(overrides[rid]) ELSE None

\* the loop of write_group_instance: st is the state before member rs_ids[st.i]
RECURSIVE group_members(_, _, _, _, _, _)
group_members(st, rs_ids, key_rsid, seq_value, overrides, t) ==
    IF st.i > Len(rs_ids) THEN st
    ELSE group_members(
            group_member(st, rs_ids[st.i], key_rsid,
                         make_value(rs_ids[st.i], seq_value,
                                    override_of(overrides, rs_ids[st.i]), st.g, t)),
            rs_ids, key_rsid, seq_value, overrides, t)

\* write_group_instance: fh, sums (Optional dict) and the generator state g
\* go in, and come out as [out, sums, g].  overrides is an Optional dict.
write_group_instance(fh, group_ref, rs_ids, key_rsid, seq_value, overrides, sums, g, t) ==
    LET closed(st) == [out |-> end(st.out, "itemGroup"),
                       sums |-> IF sums /= None THEN Some(st.sums) ELSE None,
                       g |-> st.g]
    IN  closed(group_members(
                [i |-> 1,
                 out |-> start(fh, "itemGroup", << <<"ref", group_ref>> >>),
                 sums |-> IF sums /= None THEN sums[1] ELSE EmptyDict,
                 g |-> g],
                rs_ids, key_rsid, seq_value,
                IF overrides /= None THEN overrides[1] ELSE EmptyDict, t))

\* ------------------------------------------------------------------
\* State
\* ------------------------------------------------------------------

VARIABLES
    pc,          \* where generate is: the phase it is about to write
    args,        \* the counts main passes: schedule2_groups, schedule3_groups, ...
    seed,        \* --seed: None or an int
    rng,         \* the state of the random module
    now,         \* the clock datetime.utcnow() reads
    seq,         \* the loop variable of the phase
    sums,        \* generate's dict of running totals
    units_used,  \* generate's set of RU units written by Schedule2
    out,         \* the output file: the writer's calls so far
    prev,        \* the file of the run before this one (None in a first run)
    call,        \* SpecEsc, SpecMakeValue, SpecGroup: the arguments of the call
    ret          \* SpecEsc, SpecMakeValue, SpecGroup: what the call returned

vars == <<pc, args, seed, rng, now, seq, sums, units_used, out, prev, call, ret>>

Seeds == 0..MaxSeed

\* without --seed the system seeds random: a state that no --seed tried gives
EntropyStates == {RngSeed(MaxSeed + 1)}

ArgSets == [business_groups : 0..MaxContacts,
            service_groups : 0..MaxContacts,
            schedule2_groups : 0..MaxSchedule2,
            schedule3_groups : 0..MaxSchedule3]

NoCall == [fn |-> "none"]

\* main: the arguments are parsed, random is seeded when --seed is given,
\* and generate is about to open the file
Init ==
    /\ pc = "header"
    /\ args \in ArgSets
    /\ seed \in {None} \cup {Some(k) : k \in Seeds}
    /\ rng \in (IF seed = None THEN EntropyStates ELSE {RngSeed(seed[1])})
    /\ now = 0
    /\ seq = 1
    /\ sums = EmptyDict
    /\ units_used = {}
    /\ out = <<>>
    /\ prev = None
    /\ call = NoCall
    /\ ret = None

\* ------------------------------------------------------------------
\* generate
\* ------------------------------------------------------------------

\* a unit assignment that does not alternate
unit_always_first(k) == "RU1"

unit_for_schedule2_index(k) == IF k % 2 = 1 THEN "RU1" ELSE "RU2"

VALTECH_UNITS == <<"RU1", "RU2">>

standalone_items ==
    <<"SHCA9017", "SHCA9028", "SHCA9130", "SHCA9200", "SHCA9220",
      "SHCAN261", "SHCAN262",
      "SHCAN444", "SHCAN445", "SHCAN446", "SHCAN447",
      "SHCAC492">>

\* the XML declaration and fileDescription
file_description(fh, t) ==
    end(text_tag(text_tag(text_tag(text_tag(text_tag(text_tag(text_tag(
        start(start(w(fh, "<?xml version=\"1.0\" encoding=\"UTF-8\"?>\n"),
                    "financialDataFile", <<>>),
              "fileDescription", <<>>),
        "createDate", ZeroPad(Today(t), 8), <<>>),
        "createTime", ZeroPad(TimeOfDay(t), 6), <<>>),
        "dataTypeIndicator", "Production", <<>>),
        "requestType", "Scheduler", <<>>),
        "receivingSite", "New York", <<>>),
        "seriesName", "SHCA", <<>>),
        "reportingForm", "SHCA", <<>>),
        "fileDescription")

\* the one asofDate, financialData and reportingEntity, opened
entity_open(fh, asof) ==
    start(start(start(fh, "asofDate", << <<"date", asof>> >>),
                "financialData", <<>>),
          "reportingEntity", <<>>)

\* the head of the reportingEntity
entity_head(fh, ident) ==
    text_tag(text_tag(text_tag(text_tag(text_tag(text_tag(fh,
        "reportingEntityIdentifier", str(ident), <<>>),
        "transferType", "Initial", <<>>),
        "sendingSiteReportKey", "STAR Internal Key", <<>>),
        "processingDistrict", "02", <<>>),
        "confidentiality", "None", << <<"status", "1">> >>),
        "estimation", "None", <<>>)

\* everything generate writes before the standalone items; [out, g]
header(fh, g, t) ==
    LET with_ident(asof, ident) ==
            [out |-> entity_head(entity_open(file_description(fh, t), asof.v), ident.v),
             g |-> ident.g]
        with_asof(asof) == with_ident(asof, randint(asof.g, 1, MaxEntityId))
    IN  with_asof(yyyymmdd(g, t))

\* the body of the standalone loop for item rid with value val
standalone_item(st, rid, val) ==
    [i |-> st.i + 1, out |-> write_report_item(st.out, rid, val.v, None), g |-> val.g]

\* for rid in standalone_items: write_report_item(fh, rid, make_value(rid));
\* st = [i, out, g] is the state before item standalone_items[st.i]
RECURSIVE standalone(_, _)
standalone(st, t) ==
    IF st.i > Len(standalone_items) THEN st
    ELSE standalone(standalone_item(st, standalone_items[st.i],
                        make_value(standalone_items[st.i], None, None, st.g, t)), t)

\* the ten summary items
summary(fh, a, s) ==
    write_report_item(write_report_item(write_report_item(write_report_item(
    write_report_item(write_report_item(write_report_item(write_report_item(
    write_report_item(write_report_item(fh,
        "SHCAN450", str(a.schedule2_groups), None),
        "SHCAN451", str(Get(s, S2_SUM_KEY, 0)), None),
        "SHCAN452", "0", None),
        "SHCAN453", "0", None),
        "SHCAN454", "0", None),
        "SHCAN455", str(a.schedule3_groups), None),
        "SHCAN456", str(Get(s, "SHCCN456", 0)), None),
        "SHCAN457", str(Get(s, "SHCCN457", 0)), None),
        "SHCAN458", str(Get(s, "SHCCN458", 0)), None),
        "SHCAN459", str(Get(s, "SHCCN459", 0)), None)

\* the order of generate's sections
PHASES == <<"header", "standalone", "business", "service", "schedule2",
            "valtech", "schedule3", "summary", "close", "done">>

\* a section order that writes ValTechnique after Schedule3
next_phase_valtech_late(p) ==
    CASE p = "schedule2" -> "schedule3"
      [] p = "schedule3" -> "valtech"
      [] p = "valtech" -> "summary"
      [] OTHER -> PHASES[(CHOOSE i \in 1..Len(PHASES) : PHASES[i] = p) + 1]

next_phase(p) == PHASES[(CHOOSE i \in 1..Len(PHASES) : PHASES[i] = p) + 1]

RunUnchanged == UNCHANGED <<args, seed, prev, call, ret>>

WriteHeader ==
    /\ pc = "header"
    /\ \E r \in {header(out, rng, now)} :
            out' = r.out /\ rng' = r.g
    /\ pc' = next_phase(pc)
    /\ UNCHANGED <<now, seq, sums, units_used>>
    /\ RunUnchanged

WriteStandalone ==
    /\ pc = "standalone"
    /\ \E r \in {standalone([i |-> 1, out |-> out, g |-> rng], now)} :
            out' = r.out /\ rng' = r.g
    /\ pc' = next_phase(pc)
    /\ seq' = 1
    /\ UNCHANGED <<now, sums, units_used>>
    /\ RunUnchanged

\* one iteration of a group loop that passes seq_value=seq
SeqGroup(phase, count, group_ref, rs_ids, key_rsid, overrides) ==
    /\ pc = phase
    /\ seq <= count
    /\ \E r \in {write_group_instance(out, group_ref, rs_ids, key_rsid, Some(seq),
                                      overrides, Some(sums), rng, now)} :
            out' = r.out /\ sums' = r.sums[1] /\ rng' = r.g
    /\ seq' = seq + 1
    /\ UNCHANGED <<pc, now>>
    /\ RunUnchanged

\* the loop is exhausted: on to the next section
LoopDone(phase, count) ==
    /\ pc = phase
    /\ seq > count
    /\ pc' = next_phase(pc)
    /\ seq' = 1
    /\ UNCHANGED <<rng, now, sums, units_used, out>>
    /\ RunUnchanged

BusinessGroup ==
    /\ SeqGroup("business", args.business_groups, BUSINESS_REF, BUSINESS_RSIDS,
                BUSINESS_SEQ_RSID, None)
    /\ UNCHANGED units_used

BusinessDone == LoopDone("business", args.business_groups)

ServiceGroup ==
    /\ SeqGroup("service", args.service_groups, SERVICE_REF, SERVICE_RSIDS,
                SERVICE_SEQ_RSID, None)
    /\ UNCHANGED units_used

ServiceDone == LoopDone("service", args.service_groups)

Schedule2Group ==
    /\ SeqGroup("schedule2", args.schedule2_groups, SCHEDULE2_REF, SCHEDULE2_RSIDS,
                SCHEDULE2_SEQ_RSID,
                Some([k \in {"SHCAN448"} |-> unit_for_schedule2_index(seq)]))
    /\ units_used' = units_used \cup {unit_for_schedule2_index(seq)}

Schedule2Done == LoopDone("schedule2", args.schedule2_groups)

\* a ValTechnique section that writes both units whatever was used
valtech_always(unit, used) == TRUE

\* for unit in ("RU1", "RU2"): if unit in units_used: write the instance
valtech_wanted(unit, used) == unit \in used

ValTechGroup ==
    /\ pc = "valtech"
    /\ seq <= Len(VALTECH_UNITS)
    /\ valtech_wanted(VALTECH_UNITS[seq], units_used)
    /\ \E r \in {write_group_instance(out, VALTECH_REF, VALTECH_RSIDS, VALTECH_KEY_RSID,
                     None, Some([k \in {"SHCAN448"} |-> VALTECH_UNITS[seq]]),
                     Some(sums), rng, now)} :
            out' = r.out /\ sums' = r.sums[1] /\ rng' = r.g
    /\ seq' = seq + 1
    /\ UNCHANGED <<pc, now, units_used>>
    /\ RunUnchanged

ValTechSkip ==
    /\ pc = "valtech"
    /\ seq <= Len(VALTECH_UNITS)
    /\ ~valtech_wanted(VALTECH_UNITS[seq], units_used)
    /\ seq' = seq + 1
    /\ UNCHANGED <<pc, rng, now, sums, units_used, out>>
    /\ RunUnchanged

ValTechDone == LoopDone("valtech", Len(VALTECH_UNITS))

Schedule3Group ==
    /\ SeqGroup("schedule3", args.schedule3_groups, SCHEDULE3_REF, SCHEDULE3_RSIDS,
                SCHEDULE3_SEQ_RSID, None)
    /\ UNCHANGED units_used

Schedule3Done == LoopDone("schedule3", args.schedule3_groups)

WriteSummary ==
    /\ pc = "summary"
    /\ out' = summary(out, args, sums)
    /\ pc' = next_phase(pc)
    /\ UNCHANGED <<rng, now, seq, sums, units_used>>
    /\ RunUnchanged

\* the four closing tags; the with block then closes the file
Close ==
    /\ pc = "close"
    /\ out' = end(end(end(end(out, "reportingEntity"), "financialData"),
                      "asofDate"), "financialDataFile")
    /\ pc' = next_phase(pc)
    /\ UNCHANGED <<rng, now, seq, sums, units_used>>
    /\ RunUnchanged

\* time passes
Tick ==
    /\ pc \in {"header", "standalone", "business", "service", "schedule2",
               "valtech", "schedule3", "summary", "close", "done"}
    /\ now < MaxNow
    /\ now' = now + 1
    /\ UNCHANGED <<pc, rng, seq, sums, units_used, out>>
    /\ RunUnchanged

Next ==
    \/ WriteHeader
    \/ WriteStandalone
    \/ BusinessGroup
    \/ BusinessDone
    \/ ServiceGroup
    \/ ServiceDone
    \/ Schedule2Group
    \/ Schedule2Done
    \/ ValTechGroup
    \/ ValTechSkip
    \/ ValTechDone
    \/ Schedule3Group
    \/ Schedule3Done
    \/ WriteSummary
    \/ Close
    \/ Tick

Spec == Init /\ [][Next]_vars

\* ------------------------------------------------------------------
\* Reading the file back: groups and items
\* ------------------------------------------------------------------

IsStart(c, tag) == c.fn = "start" /\ c.tag = tag

IsEnd(c, tag) == c.fn = "end" /\ c.tag = tag

IsLeaf(c, tag) == c.fn = "text_tag" /\ c.tag = tag

MinOf(S) == CHOOSE x \in S : \A y \in S : x <= y

\* where the itemGroup elements and the reportItem elements of fh open
GroupStarts(fh) == {i \in 1..Len(fh) : IsStart(fh[i], "itemGroup")}

ItemStarts(fh) == {i \in 1..Len(fh) : IsStart(fh[i], "reportItem")}

\* the itemGroup elements of fh: where each opens (at) and closes (to), its ref
GroupSpans(fh) ==
    LET ends == {e \in 1..Len(fh) : IsEnd(fh[e], "itemGroup")}
    IN  {[at |-> g, to |-> MinOf({e \in ends : e > g}), ref |-> fh[g].attrs[1][2]] :
            g \in GroupStarts(fh)}

\* the reportItem that opens at call i
ItemAt(fh, i) == [rs_id |-> fh[i + 1].value, value |-> fh[i + 2].value,
                  attrs |-> fh[i].attrs]

\* the values of the items of group sp that carry rs_id rid
ValuesIn(fh, sp, rid) ==
    {fh[i + 2].value : i \in {j \in (sp.at + 1)..(sp.to - 1) :
                                IsStart(fh[j], "reportItem") /\ fh[j + 1].value = rid}}

\* the 1-based position of group sp within its family
PositionOf(spans, sp) == Cardinality({o \in spans : o.ref = sp.ref /\ o.at <= sp.at})

\* the reportItems of fh outside every itemGroup, by rs_id
TopItemValues(fh, spans, rid) ==
    {fh[i + 2].value : i \in {j \in ItemStarts(fh) :
                                /\ fh[j + 1].value = rid
                                /\ \A sp \in spans : ~(sp.at < j /\ j < sp.to)}}

RECURSIVE SumOf(_, _, _)
\* the sum over the groups in todo of the int value of their item rid
SumOf(fh, todo, rid) ==
    IF todo = {} THEN 0
    ELSE LET sp == CHOOSE x \in todo : TRUE
             v == CHOOSE x \in ValuesIn(fh, sp, rid) : TRUE
         IN  int(v).n + SumOf(fh, todo \ {sp}, rid)

FamilySum(fh, spans, ref, rid) == SumOf(fh, {sp \in spans : sp.ref = ref}, rid)

SummaryWritten == pc \in {"close", "done"}

\* ------------------------------------------------------------------
\* Claims about generate (Spec)
\* ------------------------------------------------------------------

\* summary item |-> the group family and the field that feed it
SUMMARY_FEEDS ==
    {<<"SHCAN451", "Schedule2", "SHCDN490", "S2_SUM_SHCDN490">>,
     <<"SHCAN456", "Schedule3", "SHCCN456", "SHCCN456">>,
     <<"SHCAN457", "Schedule3", "SHCCN457", "SHCCN457">>,
     <<"SHCAN458", "Schedule3", "SHCCN458", "SHCCN458">>,
     <<"SHCAN459", "Schedule3", "SHCCN459", "SHCCN459">>}

\* C1: each summary item equals the exact sum of the values written for its
\* feeding field over the instances of its family ("0" with no instance), and
\* at every point of the run each running total is the sum over the instances
\* written so far, so that no other family's emission changes it.
C1_SummaryIsExactSum ==
    LET spans == GroupSpans(out)
    IN  \A f \in SUMMARY_FEEDS :
            LET total == FamilySum(out, spans, f[2], f[3])
            IN  /\ \A sp \in spans : sp.ref = f[2] =>
                        \E v \in ValuesIn(out, sp, f[3]) :
                            ValuesIn(out, sp, f[3]) = {v} /\ int(v).ok
                /\ Get(sums, f[4], 0) = total
                /\ SummaryWritten => TopItemValues(out, spans, f[1]) = {str(total)}

\* a run whose summary carries a sum of two or more Schedule2 amounts and the
\* Schedule3 amounts
C1_Witness ==
    /\ pc = "done"
    /\ args.schedule2_groups >= 2
    /\ args.schedule3_groups >= 1
    /\ args.business_groups >= 1
    /\ Get(sums, "S2_SUM_SHCDN490", 0) > 0
    /\ Get(sums, "SHCCN458", 0) > 0
    /\ TopItemValues(out, GroupSpans(out), "SHCAN451") =
            {str(Get(sums, "S2_SUM_SHCDN490", 0))}

\* the families with a sequence key, and the key
SEQ_KEYED == {<<"BusContact", "SHCAR069">>, <<"ServiceProvider", "SHCAR070">>,
              <<"Schedule2", "SHCDN186">>, <<"Schedule3", "SHCCN186">>}

\* C2: every instance of a sequence-keyed family carries, as the value of its
\* key item, its 1-based position within the family.
C2_KeyIsPosition ==
    LET spans == GroupSpans(out)
    IN  \A sp \in spans : \A f \in SEQ_KEYED :
            sp.ref = f[1] => ValuesIn(out, sp, f[2]) = {str(PositionOf(spans, sp))}

\* three Schedule2 instances and a Schedule3 instance are written
C2_Witness ==
    /\ pc = "done"
    /\ Cardinality({sp \in GroupSpans(out) : sp.ref = "Schedule2"}) = 3
    /\ Cardinality({sp \in GroupSpans(out) : sp.ref = "Schedule3"}) = 1
    /\ \E sp \in GroupSpans(out) :
            sp.ref = "Schedule2" /\ ValuesIn(out, sp, "SHCDN186") = {"3"}

\* the SHCAN448 values of the ValTechnique instances, in file order
ValTechUnits(fh, spans) ==
    LET vt == {sp \in spans : sp.ref = "ValTechnique"}
    IN  [k \in 1..Cardinality(vt) |->
            LET sp == CHOOSE x \in vt : PositionOf(spans, x) = k
            IN  CHOOSE v \in ValuesIn(fh, sp, "SHCAN448") : TRUE]

ValTechDecided == pc \in {"schedule3", "summary", "close", "done"}

\* C3: the k-th Schedule2 instance carries SHCAN448 = RU1 for odd k and RU2 for
\* even k; once the ValTechnique section is over it holds no instance for no
\* Schedule2 instance, the RU1 instance alone for one, and the RU1 instance
\* followed by the RU2 instance for two or more.
C3_AlternatingPair ==
    LET spans == GroupSpans(out)
        n == Cardinality({sp \in spans : sp.ref = "Schedule2"})
    IN  /\ \A sp \in spans : sp.ref = "Schedule2" =>
                ValuesIn(out, sp, "SHCAN448") =
                    {IF PositionOf(spans, sp) % 2 = 1 THEN "RU1" ELSE "RU2"}
        /\ \A sp \in spans : sp.ref = "ValTechnique" =>
                Cardinality(ValuesIn(out, sp, "SHCAN448")) = 1
        /\ ValTechDecided =>
                /\ n = args.schedule2_groups
                /\ ValTechUnits(out, spans) =
                        (IF n = 0 THEN <<>>
                         ELSE IF n = 1 THEN <<"RU1">> ELSE <<"RU1", "RU2">>)

\* three Schedule2 instances (RU1 twice, RU2 once) and both ValTechnique ones
C3_Witness ==
    /\ ValTechDecided
    /\ args.schedule2_groups = 3
    /\ ValTechUnits(out, GroupSpans(out)) = <<"RU1", "RU2">>

\* C4: at every point of the run, the key value of each ValTechnique instance
\* written so far is the SHCAN448 value of a Schedule2 instance written before it.
C4_TokenHasSource ==
    LET spans == GroupSpans(out)
    IN  \A vt \in spans : vt.ref = "ValTechnique" =>
            \E s2 \in spans :
                /\ s2.ref = "Schedule2"
                /\ s2.to < vt.at
                /\ ValuesIn(out, s2, "SHCAN448") = ValuesIn(out, vt, "SHCAN448")

\* the run is still in the ValTechnique section with the RU1 instance written
\* and RU2 not used by any Schedule2 instance
C4_Witness ==
    /\ pc = "valtech"
    /\ args.schedule2_groups = 1
    /\ \E vt \in GroupSpans(out) :
            vt.ref = "ValTechnique" /\ ValuesIn(out, vt, "SHCAN448") = {"RU1"}

\* the tags generate closes after the summary
CLOSE_TAGS == {"reportingEntity", "financialData", "asofDate", "financialDataFile"}

SUMMARY_ITEMS == {"SHCAN450", "SHCAN451", "SHCAN452", "SHCAN453", "SHCAN454",
                  "SHCAN455", "SHCAN456", "SHCAN457", "SHCAN458", "SHCAN459"}

\* the position in PHASES of the section that writes the families of ref
FamilyRank(ref) ==
    CASE ref = "BusContact" -> 3
      [] ref = "ServiceProvider" -> 4
      [] ref = "Schedule2" -> 5
      [] ref = "ValTechnique" -> 6
      [] ref = "Schedule3" -> 7
      [] OTHER -> 0

\* the position in PHASES of the section that writes the unit opening at call i:
\* an itemGroup, a reportItem outside the groups, or a single call
UnitRank(fh, i) ==
    IF IsStart(fh[i], "itemGroup") THEN FamilyRank(fh[i].attrs[1][2])
    ELSE IF IsStart(fh[i], "reportItem")
    THEN (IF \E k \in 1..Len(standalone_items) : standalone_items[k] = fh[i + 1].value
          THEN 2
          ELSE IF fh[i + 1].value \in SUMMARY_ITEMS THEN 8 ELSE 0)
    ELSE IF fh[i].fn = "end" /\ fh[i].tag \in CLOSE_TAGS THEN 9
    ELSE 1

PhaseIndex(p) == CHOOSE i \in 1..Len(PHASES) : PHASES[i] = p

RECURSIVE Forward(_, _, _, _)
\* from call i on, with the latest unit of rank last, the units of fh never
\* go back to an earlier section nor ahead of the section the run is in
Forward(fh, i, last, spans) ==
    IF i > Len(fh) THEN last <= PhaseIndex(pc)
    ELSE LET rank == UnitRank(fh, i)
             next == IF IsStart(fh[i], "itemGroup")
                     THEN (CHOOSE sp \in spans : sp.at = i).to + 1
                     ELSE IF IsStart(fh[i], "reportItem") THEN i + 4
                     ELSE i + 1
         IN  rank >= last /\ Forward(fh, next, rank, spans)

\* C5: in the sequence of writer calls the sections follow one another in the
\* order header, standalone items, BusContact, ServiceProvider, Schedule2,
\* ValTechnique, Schedule3, summary, close: the section of each unit is never
\* earlier than the section of the unit before it, so each section is one
\* contiguous run, none is re-entered, and no family's instance lies between
\* two instances of another family.
C5_PhasesForward == Forward(out, 1, 1, GroupSpans(out))

\* a finished run that wrote instances of all five families
C5_Witness ==
    /\ pc = "done"
    /\ \A r \in {"BusContact", "ServiceProvider", "Schedule2", "ValTechnique", "Schedule3"} :
            \E sp \in GroupSpans(out) : sp.ref = r
    /\ \E i \in 1..Len(out) : UnitRank(out, i) = 9

\* group family |-> the key rs_id generate passes for it
GROUP_KEYS == SEQ_KEYED \cup {<<"ValTechnique", "SHCAN448">>}

KeyOf(ref) == (CHOOSE f \in GROUP_KEYS : f[1] = ref)[2]

\* the reportItems of fh that lie in a group whose key is their rs_id
KeyItems(fh, spans) ==
    UNION {{i \in (sp.at + 1)..(sp.to - 1) :
                IsStart(fh[i], "reportItem") /\ fh[i + 1].value = KeyOf(sp.ref)} :
           sp \in spans}

\* C8: every reportItem has exactly two children, the rs_id leaf (type="mdrm")
\* and then the itemValue leaf, and it carries key="yes" exactly when it lies in
\* an itemGroup whose key is its rs_id; an item outside the groups carries none.
C8_ItemShape ==
    \A marked \in {KeyItems(out, GroupSpans(out))} :
        /\ \A i \in ItemStarts(out) :
                /\ i + 3 <= Len(out)
                /\ IsLeaf(out[i + 1], "rs_id")
                /\ out[i + 1].attrs = << <<"type", "mdrm">> >>
                /\ IsLeaf(out[i + 2], "itemValue")
                /\ out[i + 2].attrs = <<>>
                /\ IsEnd(out[i + 3], "reportItem")
                /\ out[i].attrs = (IF i \in marked
                                   THEN << <<"key", "yes">> >> ELSE <<>>)
        /\ \A j \in 1..Len(out) :
                /\ IsLeaf(out[j], "rs_id") => j > 1 /\ IsStart(out[j - 1], "reportItem")
                /\ IsLeaf(out[j], "itemValue") => j > 2 /\ IsStart(out[j - 2], "reportItem")
                /\ IsEnd(out[j], "reportItem") => j > 3 /\ IsStart(out[j - 3], "reportItem")

\* SHCAN448 is written unmarked in a Schedule2 instance and marked in a
\* ValTechnique instance, and the summary items are written
C8_Witness ==
    /\ pc = "done"
    /\ \E sp \in GroupSpans(out) : \E i \in (sp.at + 1)..(sp.to - 1) :
            /\ sp.ref = "Schedule2" /\ IsStart(out[i], "reportItem")
            /\ out[i + 1].value = "SHCAN448" /\ out[i].attrs = <<>>
    /\ \E sp \in GroupSpans(out) : \E i \in (sp.at + 1)..(sp.to - 1) :
            /\ sp.ref = "ValTechnique" /\ IsStart(out[i], "reportItem")
            /\ out[i + 1].value = "SHCAN448" /\ out[i].attrs = << <<"key", "yes">> >>

\* ------------------------------------------------------------------
\* Two runs of the program with the same command line
\* ------------------------------------------------------------------

\* main is run again with the arguments of the finished run: the generator is
\* seeded again from the same --seed, the output file is written anew, and the
\* clock has gone on; prev keeps the file of the first run
Rerun ==
    /\ pc = "done"
    /\ prev = None
    /\ prev' = Some(out)
    /\ pc' = "header"
    /\ rng' \in (IF seed = None THEN EntropyStates ELSE {RngSeed(seed[1])})
    /\ seq' = 1
    /\ sums' = EmptyDict
    /\ units_used' = {}
    /\ out' = <<>>
    /\ UNCHANGED <<args, seed, now, call, ret>>

NextRerun ==
    \/ WriteHeader
    \/ WriteStandalone
    \/ BusinessGroup
    \/ BusinessDone
    \/ ServiceGroup
    \/ ServiceDone
    \/ Schedule2Group
    \/ Schedule2Done
    \/ ValTechGroup
    \/ ValTechSkip
    \/ ValTechDone
    \/ Schedule3Group
    \/ Schedule3Done
    \/ WriteSummary
    \/ Close
    \/ Tick
    \/ Rerun

SpecRerun == Init /\ [][NextRerun]_vars

BothRunsDone == pc = "done" /\ prev /= None

\* C6: two runs with the same seed and the same family counts write the same
\* bytes.
C6_SameSeedSameBytes ==
    (BothRunsDone /\ seed /= None) => file_bytes(out) = file_bytes(prev[1])

\* ------------------------------------------------------------------
\* esc, text_tag and start on arbitrary strings (SpecEsc)
\* ------------------------------------------------------------------

\* the five metacharacters, a letter, and the tails of two entities
PIECES == {"&", "<", ">", "\"", "'", "a", "amp;", "lt;"}

RECURSIVE Texts(_)
\* the strings made of at most n pieces
Texts(n) ==
    IF n = 0 THEN {""}
    ELSE {""} \cup {pre \o s : pre \in PIECES, s \in Texts(n - 1)}

Quiet ==
    /\ args = [business_groups |-> 0, service_groups |-> 0,
               schedule2_groups |-> 0, schedule3_groups |-> 0]
    /\ seed = None
    /\ now = 0
    /\ seq = 1
    /\ units_used = {}
    /\ prev = None

InitEsc ==
    /\ pc = "esc_input"
    /\ call \in {[fn |-> "esc", s |-> s] : s \in Texts(MaxLen)}
    /\ rng \in EntropyStates
    /\ sums = EmptyDict
    /\ out = <<>>
    /\ ret = None
    /\ Quiet

\* esc(s)
CallEsc ==
    /\ pc = "esc_input"
    /\ ret' = Some(esc(call.s))
    /\ pc' = "esc_done"
    /\ UNCHANGED <<args, seed, rng, now, seq, sums, units_used, out, prev, call>>

\* text_tag(fh, "itemValue", s)
CallTextTag ==
    /\ pc = "esc_input"
    /\ out' = text_tag(out, "itemValue", call.s, <<>>)
    /\ pc' = "text_done"
    /\ UNCHANGED <<args, seed, rng, now, seq, sums, units_used, prev, call, ret>>

\* start(fh, "itemGroup", ref=s)
CallStart ==
    /\ pc = "esc_input"
    /\ out' = start(out, "itemGroup", << <<"ref", call.s>> >>)
    /\ pc' = "start_done"
    /\ UNCHANGED <<args, seed, rng, now, seq, sums, units_used, prev, call, ret>>

NextEsc ==
    \/ CallEsc
    \/ CallTextTag
    \/ CallStart

SpecEsc == InitEsc /\ [][NextEsc]_vars

ENTITIES == {<<"&amp;", "&">>, <<"&lt;", "<">>, <<"&gt;", ">">>,
             <<"&quot;", "\"">>, <<"&apos;", "'">>}

StartsWith(s, i, pre) == i + Len(pre) - 1 <= Len(s) /\ SubSeq(s, i, i + Len(pre) - 1) = pre

RECURSIVE Unesc(_, _)
\* the entity decoding of s from character i on: each of the five entities
\* stands for its character, every other character for itself
Unesc(s, i) ==
    IF i > Len(s) THEN ""
    ELSE IF \E e \in ENTITIES : StartsWith(s, i, e[1])
    THEN LET e == CHOOSE x \in ENTITIES : StartsWith(s, i, x[1])
         IN  e[2] \o Unesc(s, i + Len(e[1]))
    ELSE Ch(s, i) \o Unesc(s, i + 1)

\* s holds no raw < > " ' and no & that does not start one of the five entities
NoRaw(s) ==
    \A i \in 1..Len(s) :
        /\ Ch(s, i) \notin {"<", ">", "\"", "'"}
        /\ Ch(s, i) = "&" => \E e \in ENTITIES : StartsWith(s, i, e[1])

\* the first position from i on where s holds c, or Len(s) + 1
IndexOf(s, c, i) ==
    IF \E j \in i..Len(s) : Ch(s, j) = c
    THEN CHOOSE j \in i..Len(s) : Ch(s, j) = c /\ \A k \in i..(j - 1) : Ch(s, k) /= c
    ELSE Len(s) + 1

\* what a parser takes for the text of the element written as b: the
\* characters between the end of the start tag and the next tag
TextContent(b) == SubSeq(b, IndexOf(b, ">", 1) + 1, IndexOf(b, "<", IndexOf(b, ">", 1) + 1) - 1)

\* what a parser takes for the first attribute value of the start tag b: the
\* characters between the first quote and the next one
AttrContent(b) == SubSeq(b, IndexOf(b, "\"", 1) + 1, IndexOf(b, "\"", IndexOf(b, "\"", 1) + 1) - 1)

\* C7: for every string s, decoding esc(s) gives s back and esc(s) holds no
\* raw metacharacter; the text that text_tag writes for s and the attribute
\* value that start writes for s are read back by a parser as exactly s.
C7_EscRoundTrip ==
    /\ pc = "esc_done" => Unesc(ret[1], 1) = call.s /\ NoRaw(ret[1])
    /\ pc = "text_done" =>
            /\ bytes_of(out[1]) = "<itemValue>" \o esc(call.s) \o "</itemValue>"
            /\ NoRaw(TextContent(bytes_of(out[1])))
            /\ Unesc(TextContent(bytes_of(out[1])), 1) = call.s
    /\ pc = "start_done" =>
            /\ bytes_of(out[1]) = "<itemGroup ref=\"" \o esc(call.s) \o "\">"
            /\ NoRaw(AttrContent(bytes_of(out[1])))
            /\ Unesc(AttrContent(bytes_of(out[1])), 1) = call.s

\* esc was applied to a string that holds an entity-like text and a quote
C7_Witness ==
    /\ pc = "esc_done"
    /\ call.s = "&amp;\""
    /\ ret = Some("&amp;amp;&quot;")

\* ------------------------------------------------------------------
\* make_value on arbitrary arguments (SpecMakeValue)
\* ------------------------------------------------------------------

Elements(items) == {items[i] : i \in 1..Len(items)}

\* every rs_id the program names, and one it does not
RS_IDS ==
    Elements(SCHEDULE2_RSIDS) \cup Elements(SCHEDULE3_RSIDS) \cup Elements(BUSINESS_RSIDS)
    \cup Elements(SERVICE_RSIDS) \cup Elements(VALTECH_RSIDS)
    \cup Elements(standalone_items) \cup SUMMARY_ITEMS \cup {"ZZZZ9999"}

GeneratorStates == {RngSeed(k) : k \in 0..(MaxSeed + 1)}

InitMakeValue ==
    /\ pc = "make_value_input"
    /\ call \in [fn : {"make_value"}, rs_id : RS_IDS,
                 seq_value : {None, Some(1), Some(2), Some(12)},
                 override : {None, Some(""), Some("7"), Some("a&b")}]
    /\ rng \in GeneratorStates
    /\ now \in 0..MaxNow
    /\ args = [business_groups |-> 0, service_groups |-> 0,
               schedule2_groups |-> 0, schedule3_groups |-> 0]
    /\ seed = None
    /\ seq = 1
    /\ sums = EmptyDict
    /\ units_used = {}
    /\ out = <<>>
    /\ prev = None
    /\ ret = None

\* make_value(rs_id, seq_value=seq_value, override=override)
CallMakeValue ==
    /\ pc = "make_value_input"
    /\ \E r \in {make_value(call.rs_id, call.seq_value, call.override, rng, now)} :
            ret' = Some(r.v) /\ rng' = r.g
    /\ pc' = "make_value_done"
    /\ UNCHANGED <<args, seed, now, seq, sums, units_used, out, prev, call>>

NextMakeValue ==
    \/ CallMakeValue

SpecMakeValue == InitMakeValue /\ [][NextMakeValue]_vars

IsAlnum(c) == IsDigit(c) \/ \E i \in 1..Len(ASCII_LETTERS) : Ch(ASCII_LETTERS, i) = c

\* s is a number of 1..n digits that does not start with 0
IsWholeDollars(s, n) ==
    /\ Len(s) \in 1..n
    /\ \A i \in 1..Len(s) : IsDigit(Ch(s, i))
    /\ Ch(s, 1) /= "0"

\* the rs_ids with a rule of their own in make_value whose values are texts
\* without a closed form here: an address, a phone number, a date
FREE_TEXT_IDS == {"SHCAC492", "SHCAN447", "SHCA4086", "SHCA9028", "SHCA9220",
                  "SHCAN446", "SHCA8902", "SHCDN477", "SHCD9914"}

\* whether v is a value of the rule declared for rs_id, for the ids that have one
FollowsRule(rs_id, v) ==
    CASE rs_id \in {"SHCCN478", "SHCCN479", "SHCDN461", "SHCDN467"} -> v \in {"1", "2"}
      [] rs_id \in {"SHCDN463", "SHCDN471"} -> v \in {str(k) : k \in 1..7}
      [] rs_id = "SHCDN468" -> v \in {str(k) : k \in 1..12}
      [] rs_id = "SHCAN261" -> v \in {str(k) : k \in 1..4}
      [] rs_id = "SHCAN262" -> v \in {str(k) : k \in 1..9}
      [] rs_id = "SHCDN486" -> v \in Elements(SHCDN486_ALLOWED)
      [] rs_id = "SHCDN475" -> v = ""
      [] rs_id \in {"SHCA9017", "SHCAN263"} -> v \in Elements(COMPANIES)
      [] rs_id = "SHCA9130" -> v \in Elements(CITIES)
      [] rs_id = "SHCA9200" -> v \in Elements(US_STATES)
      [] rs_id \in {"SHCAN444", "SHCAC495"} -> v \in Elements(NAMES)
      [] rs_id \in {"SHCAN445", "SHCAC496"} -> v \in Elements(TITLES)
      [] rs_id = "SHCDN470" -> v \in Elements(CURRENCIES)
      [] rs_id \in {"SHCDN490", "SHCDN472"} -> IsWholeDollars(v, Capped(12))
      [] rs_id = "SHCDN473" -> IsWholeDollars(v, Capped(11))
      [] rs_id \in {"SHCDN474"} \cup S3_AMOUNT_RSIDS -> IsWholeDollars(v, Capped(13))
      [] rs_id = "SHCAN449" -> v = "Valuation description"
      [] rs_id \in FREE_TEXT_IDS -> Len(v) > 0

RULED_IDS ==
    {"SHCCN478", "SHCCN479", "SHCDN461", "SHCDN467", "SHCDN463", "SHCDN471",
     "SHCDN468", "SHCAN261", "SHCAN262", "SHCDN486", "SHCDN475", "SHCA9017",
     "SHCAN263", "SHCA9130", "SHCA9200", "SHCAN444", "SHCAC495", "SHCAN445",
     "SHCAC496", "SHCDN470", "SHCDN490", "SHCDN472", "SHCDN473", "SHCDN474",
     "SHCAN449"} \cup S3_AMOUNT_RSIDS \cup FREE_TEXT_IDS

\* the base-10 text of the sequence values drawn
Decimal == (1 :> "1") @@ (2 :> "2") @@ (12 :> "12")

\* C9: make_value returns a value for every rs_id: the override when one is
\* given, the empty string included, whatever the rs_id; else for a sequence
\* key seq_value in base 10, or "1" when there is none; else a value of the
\* field's own rule; else ten alphanumeric characters.
C9_Precedence ==
    pc = "make_value_done" =>
        /\ ret /= None
        /\ IF call.override /= None THEN ret[1] = call.override[1]
           ELSE IF call.rs_id \in {"SHCDN186", "SHCCN186", "SHCAR069", "SHCAR070"}
           THEN ret[1] = (IF call.seq_value = None THEN "1"
                          ELSE Decimal[call.seq_value[1]])
           ELSE IF call.rs_id \in RULED_IDS THEN FollowsRule(call.rs_id, ret[1])
           ELSE Len(ret[1]) = 10 /\ \A i \in 1..10 : IsAlnum(Ch(ret[1], i))

\* make_value was given the empty string as the override of a sequence key
C9_Witness ==
    /\ pc = "make_value_done"
    /\ call.rs_id = "SHCDN186"
    /\ call.seq_value = Some(2)
    /\ call.override = Some("")
    /\ ret = Some("")

\* ------------------------------------------------------------------
\* write_group_instance with overrides on the summed fields (SpecGroup)
\* ------------------------------------------------------------------

\* the families whose members feed a total: ref, rs_ids, key rs_id
SUMMED_FAMILIES == {<<SCHEDULE2_REF, SCHEDULE2_RSIDS, SCHEDULE2_SEQ_RSID>>,
                    <<SCHEDULE3_REF, SCHEDULE3_RSIDS, SCHEDULE3_SEQ_RSID>>}

\* summed field |-> the key of its total in sums
TOTAL_KEYS == {<<"SHCDN490", S2_SUM_KEY>>, <<"SHCCN456", "SHCCN456">>,
               <<"SHCCN457", "SHCCN457">>, <<"SHCCN458", "SHCCN458">>,
               <<"SHCCN459", "SHCCN459">>}

\* texts that int() refuses, and texts that it takes
OVERRIDE_VALUES == {"", "abc", "1.5", "1__0", "12", " +1_0 ", "-7"}

\* the totals before the call: none yet, or some of every kind
SUMS_BEFORE == {EmptyDict, [k \in {f[2] : f \in TOTAL_KEYS} |-> 5]}

\* no overrides, or an override of one summed member of the family
OverridesFor(rs_ids) ==
    {None} \cup {Some([k \in {f[1]} |-> v]) :
                    f \in {x \in TOTAL_KEYS : x[1] \in Elements(rs_ids)},
                    v \in OVERRIDE_VALUES}

InitGroup ==
    /\ pc = "group_input"
    /\ \E fam \in SUMMED_FAMILIES :
            call \in [fn : {"write_group_instance"}, group_ref : {fam[1]},
                      rs_ids : {fam[2]}, key_rsid : {fam[3]},
                      seq_value : {Some(1)},
                      overrides : OverridesFor(fam[2]),
                      sums : SUMS_BEFORE]
    /\ sums = call.sums
    /\ rng \in GeneratorStates
    /\ now = 0
    /\ args = [business_groups |-> 0, service_groups |-> 0,
               schedule2_groups |-> 0, schedule3_groups |-> 0]
    /\ seed = None
    /\ seq = 1
    /\ units_used = {}
    /\ out = <<>>
    /\ prev = None
    /\ ret = None

\* write_group_instance(fh, group_ref=..., rs_ids=..., key_rsid=...,
\*                      seq_value=..., overrides=..., sums=sums)
CallWriteGroup ==
    /\ pc = "group_input"
    /\ \E r \in {write_group_instance(out, call.group_ref, call.rs_ids, call.key_rsid,
                                      call.seq_value, call.overrides, Some(sums),
                                      rng, now)} :
            out' = r.out /\ sums' = r.sums[1] /\ rng' = r.g
    /\ pc' = "group_done"
    /\ UNCHANGED <<args, seed, now, seq, units_used, prev, call, ret>>

NextGroup ==
    \/ CallWriteGroup

SpecGroup == InitGroup /\ [][NextGroup]_vars

\* the value written for member k of the one group in fh
MemberValue(fh, k) == fh[4 * k].value

\* the position of rid in rs_ids
MemberIndex(rs_ids, rid) == CHOOSE k \in 1..Len(rs_ids) : rs_ids[k] = rid

\* C10: when a summed member of a group instance resolves to a text that is
\* no integer, its total stays as it was before the call (and is not created),
\* every other total is changed by its own member's value alone, the item is
\* written with the text, and every member of the instance is written, the
\* instance closed.
C10_SkipNonInteger ==
    pc = "group_done" =>
        /\ Len(out) = 4 * Len(call.rs_ids) + 2
        /\ IsStart(out[1], "itemGroup") /\ IsEnd(out[Len(out)], "itemGroup")
        /\ \A k \in 1..Len(call.rs_ids) :
                /\ IsStart(out[4 * k - 2], "reportItem")
                /\ out[4 * k - 1].value = call.rs_ids[k]
                /\ IsLeaf(out[4 * k], "itemValue")
                /\ IsEnd(out[4 * k + 1], "reportItem")
        /\ call.overrides /= None =>
                \A rid \in DOMAIN call.overrides[1] :
                    MemberValue(out, MemberIndex(call.rs_ids, rid)) = call.overrides[1][rid]
        /\ \A f \in TOTAL_KEYS :
                IF f[1] \in Elements(call.rs_ids)
                   /\ int(MemberValue(out, MemberIndex(call.rs_ids, f[1]))).ok
                THEN sums[f[2]] = Get(call.sums, f[2], 0)
                                  + int(MemberValue(out, MemberIndex(call.rs_ids, f[1]))).n
                ELSE /\ f[2] \in DOMAIN sums <=> f[2] \in DOMAIN call.sums
                     /\ Get(sums, f[2], 0) = Get(call.sums, f[2], 0)

\* a Schedule3 instance was written with SHCCN457 overridden by "1.5": its
\* total is still 5, and the total of SHCCN458 has grown
C10_Witness ==
    /\ pc = "group_done"
    /\ call.group_ref = "Schedule3"
    /\ call.overrides = Some([k \in {"SHCCN457"} |-> "1.5"])
    /\ call.sums /= EmptyDict
    /\ sums["SHCCN457"] = 5
    /\ sums["SHCCN458"] > 5
    /\ MemberValue(out, MemberIndex(call.rs_ids, "SHCCN457")) = "1.5"

=============================================================================
